---- MODULE Spec2Model ----
(***************************************************************************)
(* Model of litepcie/host/s7pciehost.py: the S7PCIEHOST LiteX module.      *)
(*                                                                         *)
(* Two state machines share the variables below.                           *)
(*   Spec      : build-time elaboration of one S7PCIEHOST object           *)
(*               (__init__, update_regions, add_sources, do_finalize) and  *)
(*               the platform's pre-synthesis command list.                *)
(*   SpecReset : the clock/reset hardware that __init__ describes (the     *)
(*               MultiReg resynchronizers and the AsyncResetSynchronizer   *)
(*               of the "pcie" clock domain), stepped per clock edge.      *)
(***************************************************************************)
EXTENDS Integers, Sequences, FiniteSets, TLC

VARIABLES
    stage,                  \* "none" | "constructed" | "ctor_failed"
    args,                   \* arguments of the S7PCIEHOST(...) call
    self,                   \* the object's fields set by __init__ / update_regions
    specials,               \* names of the specials added to the module
    pre_synthesis_commands, \* platform.toolchain.pre_synthesis_commands
    fin,                    \* position inside do_finalize
    err,                    \* message of the last failed assertion, "" when none
    emits,                  \* one record per successful add_sources call
    repeated,               \* the last update_regions call repeated the stored regions
    n_updates,              \* number of update_regions calls so far
    sys_rst,                \* ResetSignal("sys")
    vadj_pgood,             \* power-good input
    core_out,               \* hard core status outputs (PCIe domain), by signal
    sync_regs,              \* MultiReg stages of each add_resync, by signal
    rst_meta,               \* first flip-flop of the AsyncResetSynchronizer
    pcie_rst,               \* cd_pcie.rst, second flip-flop
    src_changed,            \* the output changed since the last "sys" clock edge
    clean_edges,            \* PCIe clock edges seen since the hazard was last true
    stable_edges,           \* "sys" clock edges seen since each output last changed
    sent,                   \* beats each AXI channel's source has presented, in order
    src_valid,              \* the beat held valid at a bridge input, 0 when none
    fifo,                   \* beats inside the bridge, by channel
    seen                    \* beats handed to each channel's receiver, in order

elab_vars  == <<stage, args, self, specials, pre_synthesis_commands, fin, err,
                emits, repeated, n_updates>>
reset_vars == <<sys_rst, vadj_pgood, core_out, sync_regs, rst_meta, pcie_rst,
                src_changed, clean_edges, stable_edges>>
bridge_vars == <<sent, src_valid, fifo, seen>>
vars       == <<stage, args, self, specials, pre_synthesis_commands, fin, err,
                emits, repeated, n_updates,
                sys_rst, vadj_pgood, core_out, sync_regs, rst_meta, pcie_rst,
                src_changed, clean_edges, stable_edges,
                sent, src_valid, fifo, seen>>

(***************************************************************************)
(* Bounds of the model.                                                    *)
(***************************************************************************)
MaxEmits   == 2     \* successful add_sources calls explored
MaxUpdates == 2     \* update_regions calls explored
MaxEdges   == 3     \* clean PCIe clock edges counted before the count saturates
MaxStable  == 3     \* "sys" clock edges counted before the count saturates

(***************************************************************************)
(* Python values.                                                          *)
(* None is the empty sequence and any other value v is <<v>>, so that an   *)
(* optional argument can be compared with None whatever its type.          *)
(***************************************************************************)
None      == <<>>
Some(v)   == <<v>>
Val(o)    == o[1]
Truthy(o) == o # None

(***************************************************************************)
(* Python integers are unbounded; addresses do not fit the model checker's *)
(* 32-bit integers, so an integer v is kept as hi * 2^16 + lo with         *)
(* 0 <= lo < 2^16 (hi < 0 for a negative v).                               *)
(***************************************************************************)
Word == 256 * 256

Big(h, l)   == [hi |-> h, lo |-> l]
BigAdd(a, b) ==
    LET s == a.lo + b.lo
    IN  [hi |-> a.hi + b.hi + (s \div Word), lo |-> s % Word]
BigDec(a) ==
    IF a.lo > 0 THEN [hi |-> a.hi, lo |-> a.lo - 1]
                ELSE [hi |-> a.hi - 1, lo |-> Word - 1]
BigNeg(a) ==
    IF a.lo = 0 THEN [hi |-> 0 - a.hi, lo |-> 0]
                ELSE [hi |-> 0 - a.hi - 1, lo |-> Word - a.lo]
BigIsNeg(a) == a.hi < 0

(***************************************************************************)
(* String conversions: str(int), and format(int, "08x").                   *)
(***************************************************************************)
HexChar == <<"0", "1", "2", "3", "4", "5", "6", "7",
             "8", "9", "a", "b", "c", "d", "e", "f">>

RECURSIVE HexStr(_)
HexStr(n) ==
    IF n < 16 THEN HexChar[n + 1]
              ELSE HexStr(n \div 16) \o HexChar[(n % 16) + 1]

RECURSIVE DecStr(_)
DecStr(n) ==
    IF n < 0 THEN "-" \o DecStr(0 - n)
    ELSE IF n < 10 THEN HexChar[n + 1]
    ELSE DecStr(n \div 10) \o HexChar[(n % 10) + 1]

RECURSIVE ZeroPad(_, _)
ZeroPad(s, w) == IF Len(s) >= w THEN s ELSE ZeroPad("0" \o s, w)

\* hexadecimal digits of a non-negative integer, no padding
BigHex(a) ==
    IF a.hi = 0 THEN HexStr(a.lo)
                ELSE HexStr(a.hi) \o ZeroPad(HexStr(a.lo), 4)

\* format(v, "08x"): zero-padded to a minimum width of 8, the sign included
Format08x(v) ==
    IF BigIsNeg(v) THEN "-" \o ZeroPad(BigHex(BigNeg(v)), 7)
                   ELSE ZeroPad(BigHex(v), 8)

(***************************************************************************)
(* Memory regions (objects with an origin and a size) and the argument     *)
(* values the model draws from.                                            *)
(***************************************************************************)
Region(o, s) == Some([origin |-> o, size |-> s])

\* ECAM window 0x0000_0000 + 0x0100_0000
EcamLow   == Region(Big(0, 0), Big(256, 0))
\* MMIO window 0x4000_0000 + 0x1000_0000
MmioLow   == Region(Big(16384, 0), Big(4096, 0))
\* MMIO window 0xF000_0000 + 0x2000_0000, ending above 4 GiB
MmioHigh  == Region(Big(61440, 0), Big(8192, 0))

\* ECAM window 0x0000_0000 of size 0
EcamEmpty == Region(Big(0, 0), Big(0, 0))
\* MMIO window 0x1_0000_0000 + 0x2_0000_0000 (8 GiB)
MmioHuge  == Region(Big(Word, 0), Big(2 * Word, 0))

EcamArgs  == {None, EcamLow}
MmioArgs  == {None, MmioLow, MmioHigh}

\* the (ecam, mmio) pairs explored: every pair of the values above, the
\* empty ECAM window and the 8 GiB MMIO window each beside a plain region
RegionArgs ==
    (EcamArgs \X MmioArgs) \cup {<<EcamEmpty, MmioLow>>, <<EcamLow, MmioHuge>>}

LaneArgs          == {0, 1, 2, 3, 4, 8, 16}
DataWidthArgs     == {32, 64, 128}
PcieDataWidthArgs == {None, Some(64), Some(128), Some(256)}
RefClkArgs        == {100000000, 125000000, 250000000, 200000000, 100}
LinkSpeedArgs     == {"2.5_GT/s", "5.0_GT/s"}
ClockDomainArgs   == {"sys", "soc"}

\* keyword defaults of __init__
DefaultArgs ==
    [nlanes          |-> 4,
     data_width      |-> 64,
     id_width        |-> 4,
     pcie_data_width |-> None,
     pcie_id_width   |-> None,
     pcie_ecam       |-> None,
     pcie_mmio       |-> None,
     max_link_speed  |-> "2.5_GT/s",
     refclk_freq     |-> 100000000,
     cd              |-> "sys",
     has_rst_n       |-> TRUE]

\* The calls explored: every parameter that __init__ checks is varied over its
\* whole argument set around the defaults, the two data widths jointly.
CtorArgs ==
         {[DefaultArgs EXCEPT !.nlanes = n] : n \in LaneArgs}
    \cup {[DefaultArgs EXCEPT !.data_width = d, !.pcie_data_width = p] :
              d \in DataWidthArgs, p \in PcieDataWidthArgs}
    \cup {[DefaultArgs EXCEPT !.refclk_freq = f, !.nlanes = n] :
              f \in RefClkArgs, n \in {1, 3}}
    \cup {[DefaultArgs EXCEPT !.max_link_speed = l, !.pcie_id_width = Some(2),
                              !.id_width = 8, !.has_rst_n = FALSE] :
              l \in LinkSpeedArgs}
    \cup {[DefaultArgs EXCEPT !.pcie_ecam = ra[1], !.pcie_mmio = ra[2]] :
              ra \in RegionArgs}
    \cup {[DefaultArgs EXCEPT !.cd = c] : c \in ClockDomainArgs}

(***************************************************************************)
(* __init__: parameter defaults and checks (lines 43-60).                  *)
(***************************************************************************)
\* (faulty variants: each check accepts one value too many)
ValidLanesBad(n) == n \in {1, 2, 3, 4, 8}
ValidLanes(n)    == n \in {1, 2, 4, 8}

ValidDataWidthBad(w) == w \in {32, 64, 128}
ValidDataWidth(w)    == w \in {64, 128}

ValidRefClkBad(f) == f \in {100000000, 125000000, 200000000, 250000000}
ValidRefClk(f)    == f \in {100000000, 125000000, 250000000}

\* "if pcie_data_width is None: pcie_data_width = data_width"
OrDefault(opt, dflt) == IF opt = None THEN dflt ELSE Val(opt)

CtorChecks(a) ==
    /\ ValidLanes(a.nlanes)
    /\ ValidDataWidth(a.data_width)
    /\ ValidDataWidth(OrDefault(a.pcie_data_width, a.data_width))
    /\ ValidRefClk(a.refclk_freq)

NoObject ==
    [nlanes          |-> 0,
     data_width      |-> 0,
     id_width        |-> 0,
     pcie_data_width |-> 0,
     pcie_id_width   |-> 0,
     pcie_ecam       |-> None,
     pcie_mmio       |-> None,
     max_link_speed  |-> "",
     refclk_freq     |-> 0]

NewObject(a) ==
    [nlanes          |-> a.nlanes,
     data_width      |-> a.data_width,
     id_width        |-> a.id_width,
     pcie_data_width |-> OrDefault(a.pcie_data_width, a.data_width),
     pcie_id_width   |-> OrDefault(a.pcie_id_width, a.id_width),
     pcie_ecam       |-> a.pcie_ecam,
     pcie_mmio       |-> a.pcie_mmio,
     max_link_speed  |-> a.max_link_speed,
     refclk_freq     |-> a.refclk_freq]

\* specials added by __init__: the reference clock buffer, the reset
\* synchronizer and the three add_resync MultiRegs
InitSpecials ==
    {"IBUFDS_GTE2", "AsyncResetSynchronizer",
     "MultiReg(pcie_linkup)", "MultiReg(pcie_mmcm_lock)", "MultiReg(ev.irq)"}

\* instances added by do_finalize
FinalInstances ==
    {"pcie_conv_ctl_s7", "pcie_conv_mmio_s7", "pcie_conv_dma_s7", "pcie_host_s7"}

(***************************************************************************)
(* add_sources: the configs dictionary (lines 546-604), in insertion       *)
(* order, every value already passed through str().                        *)
(***************************************************************************)
\* origin + size - 1
HighAddr(r)    == BigDec(BigAdd(r.origin, r.size))

LanesStr(n)   == "X" \o DecStr(n)
\* (faulty variant: the frequency is not scaled to MHz)
RefClkStrBad(f) == DecStr(f) \o "_MHz"
\* f"{int(self.refclk_freq/1e6)}_MHz"
RefClkStr(f)    == DecStr(f \div 1000000) \o "_MHz"
AddrStr(v)    == "0x" \o Format08x(v)

ConvCtlConfig ==
    << <<"ID_WIDTH", DecStr(0)>>,
       <<"DATA_WIDTH", DecStr(32)>>,
       <<"PROTOCOL", "AXI4LITE">>,
       <<"SYNCHRONIZATION_STAGES", DecStr(2)>> >>

ConvFullConfig(s) ==
    << <<"ID_WIDTH", DecStr(s.pcie_id_width)>>,
       <<"DATA_WIDTH", DecStr(s.pcie_data_width)>>,
       <<"PROTOCOL", "AXI4">>,
       <<"SYNCHRONIZATION_STAGES", DecStr(2)>> >>

HostConfig(s) ==
    LET mmio == Val(s.pcie_mmio)
        ecam == Val(s.pcie_ecam)
    IN  << <<"AXIBAR2PCIEBAR_0", AddrStr(mmio.origin)>>,
           <<"AXIBAR_0", AddrStr(mmio.origin)>>,
           <<"AXIBAR_HIGHADDR_0", AddrStr(HighAddr(mmio))>>,
           <<"AXIBAR_NUM", DecStr(1)>>,
           <<"BAR0_SCALE", "Gigabytes">>,
           <<"BAR0_SIZE", DecStr(4)>>,
           <<"BAR_64BIT", "true">>,
           <<"BASEADDR", AddrStr(ecam.origin)>>,
           <<"HIGHADDR", AddrStr(HighAddr(ecam))>>,
           <<"CLASS_CODE", "0x060400">>,
           <<"ENABLE_CLASS_CODE", "true">>,
           <<"BASE_CLASS_MENU", "Bridge_device">>,
           <<"SUB_CLASS_INTERFACE_MENU", "PCI_to_PCI_bridge">>,
           <<"NO_OF_LANES", LanesStr(s.nlanes)>>,
           <<"MAX_LINK_SPEED", s.max_link_speed>>,
           <<"REF_CLK_FREQ", RefClkStr(s.refclk_freq)>>,
           <<"DEVICE_ID", "0x7111">>,
           <<"INCLUDE_BAROFFSET_REG", "false">>,
           <<"INCLUDE_RC", "Root_Port_of_PCI_Express_Root_Complex">>,
           <<"S_AXI_SUPPORTS_NARROW_BURST", "true">>,
           <<"S_AXI_ID_WIDTH", DecStr(s.pcie_id_width)>>,
           <<"S_AXI_DATA_WIDTH", DecStr(s.pcie_data_width)>>,
           <<"M_AXI_DATA_WIDTH", DecStr(s.pcie_data_width)>>,
           <<"COMP_TIMEOUT", "50ms">>,
           <<"rp_bar_hide", "true">> >>

\* (faulty variant: the hard core is enumerated first)
ConfigsBad(s) ==
    << [name |-> "host", ip_type |-> "axi_pcie", config |-> HostConfig(s)],
       [name |-> "conv_ctl", ip_type |-> "axi_clock_converter", config |-> ConvCtlConfig],
       [name |-> "conv_mmio", ip_type |-> "axi_clock_converter", config |-> ConvFullConfig(s)],
       [name |-> "conv_dma", ip_type |-> "axi_clock_converter", config |-> ConvFullConfig(s)] >>
Configs(s) ==
    << [name |-> "conv_ctl", ip_type |-> "axi_clock_converter", config |-> ConvCtlConfig],
       [name |-> "conv_mmio", ip_type |-> "axi_clock_converter", config |-> ConvFullConfig(s)],
       [name |-> "conv_dma", ip_type |-> "axi_clock_converter", config |-> ConvFullConfig(s)],
       [name |-> "host", ip_type |-> "axi_pcie", config |-> HostConfig(s)] >>

(***************************************************************************)
(* add_sources: Tcl generation (lines 606-619).                            *)
(***************************************************************************)
ModuleName(name) == "pcie_" \o name \o "_s7"

CreateCmd(ip_type, module_name) ==
    "create_ip -vendor xilinx.com -name " \o ip_type \o " -module_name " \o module_name
GetIpsCmd(module_name) == "set obj [get_ips " \o module_name \o "]"
SetPropertyOpen  == "set_property -dict [list \\"
ConfigLine(key, value) == "CONFIG." \o key \o " {{" \o value \o "}} \\"
SetPropertyClose == "] $obj"
GenerateCmd      == "generate_target all $obj"
SynthCmd         == "synth_ip $obj"

ConfigLines(config) ==
    [i \in 1..Len(config) |-> ConfigLine(config[i][1], config[i][2])]

IpTcl(c) ==
    << CreateCmd(c.ip_type, ModuleName(c.name)),
       GetIpsCmd(ModuleName(c.name)),
       SetPropertyOpen >>
    \o ConfigLines(c.config)
    \o << SetPropertyClose, GenerateCmd, SynthCmd, "" >>

RECURSIVE TclFrom(_, _)
TclFrom(configs, i) ==
    IF i > Len(configs) THEN <<>>
    ELSE IpTcl(configs[i]) \o TclFrom(configs, i + 1)

Tcl(configs) == TclFrom(configs, 1)

\* The two assertions at the top of add_sources: "" when both pass.
\* (faulty variant: tests the region's origin, so a window at address 0 counts as missing)
RegionCheckBad(s) ==
    IF ~Truthy(s.pcie_ecam) \/ Val(s.pcie_ecam).origin = Big(0, 0)
    THEN "No ECAM region provided"
    ELSE IF ~Truthy(s.pcie_mmio) THEN "No MMIO region provided"
    ELSE ""
RegionCheck(s) ==
    IF ~Truthy(s.pcie_ecam) THEN "No ECAM region provided"
    ELSE IF ~Truthy(s.pcie_mmio) THEN "No MMIO region provided"
    ELSE ""

(***************************************************************************)
(* Elaboration state machine.                                              *)
(***************************************************************************)
\* the hard core outputs that __init__ passes through add_resync (lines 110-112)
ResyncSignals == {"user_link_up", "mmcm_lock", "interrupt_out"}

PlatformCommands == {<<>>, <<"# platform pre-synthesis command">>}

\* the five channels of an AXI interface
Channels == {"aw", "w", "b", "ar", "r"}

BridgeIdle ==
    /\ sent = [ch \in Channels |-> <<>>]
    /\ src_valid = [ch \in Channels |-> 0]
    /\ fifo = [ch \in Channels |-> <<>>]
    /\ seen = [ch \in Channels |-> <<>>]

ResetIdle ==
    /\ sys_rst = TRUE
    /\ vadj_pgood = FALSE
    /\ core_out = [sig \in ResyncSignals |-> FALSE]
    /\ sync_regs = [sig \in ResyncSignals |-> <<FALSE, FALSE>>]
    /\ rst_meta = TRUE
    /\ pcie_rst = TRUE
    /\ src_changed = [sig \in ResyncSignals |-> FALSE]
    /\ clean_edges = 0
    /\ stable_edges = [sig \in ResyncSignals |-> 0]

Init ==
    /\ stage = "none"
    /\ args = DefaultArgs
    /\ self = NoObject
    /\ specials = {}
    /\ pre_synthesis_commands \in PlatformCommands
    /\ fin = "idle"
    /\ err = ""
    /\ emits = <<>>
    /\ repeated = FALSE
    /\ n_updates = 0
    /\ ResetIdle
    /\ BridgeIdle

\* S7PCIEHOST(platform, pads, vadj_pgood, ...): __init__ (lines 28-523).
\* A failed assertion leaves no object; nothing has touched the platform yet.
Construct(a) ==
    /\ stage = "none"
    /\ args' = a
    /\ IF CtorChecks(a)
       THEN /\ stage' = "constructed"
            /\ self' = NewObject(a)
            /\ specials' = InitSpecials
            /\ err' = ""
       ELSE /\ stage' = "ctor_failed"
            /\ self' = NoObject
            /\ specials' = {}
            /\ err' = "AssertionError"
    /\ UNCHANGED <<pre_synthesis_commands, fin, emits, repeated, n_updates>>
    /\ UNCHANGED <<reset_vars, bridge_vars>>

\* update_regions(ecam, mmio) (lines 532-537)
UpdateRegions(ecam, mmio) ==
    /\ stage = "constructed"
    /\ fin # "phase1"
    /\ n_updates < MaxUpdates
    /\ self' = [self EXCEPT !.pcie_ecam = ecam, !.pcie_mmio = mmio]
    /\ repeated' = (n_updates > 0 /\ ecam = self.pcie_ecam /\ mmio = self.pcie_mmio)
    /\ n_updates' = n_updates + 1
    /\ err' = ""
    /\ UNCHANGED <<stage, args, specials, pre_synthesis_commands, fin, emits>>
    /\ UNCHANGED <<reset_vars, bridge_vars>>

\* What a successful add_sources call leaves behind: ip_tcl is local to the
\* call and is appended to the platform's list (line 621).
EmitRecord(by, ip_tcl) ==
    [by       |-> by,
     ecam     |-> self.pcie_ecam,
     mmio     |-> self.pcie_mmio,
     repeated |-> repeated,
     updates  |-> n_updates,
     at       |-> Len(pre_synthesis_commands),
     out      |-> ip_tcl]

\* (faulty variant: the list outlives the call and keeps the previous emission)
IpTclOfBad(s) ==
    (IF emits = <<>> THEN <<>> ELSE emits[Len(emits)].out) \o Tcl(Configs(s))
IpTclOf(s)    == Tcl(Configs(s))

\* What a call that fails a region assertion has appended to the platform's
\* list: the assertions (lines 542-543) come before anything is built.
\* (faulty variant: the first bridge is emitted before the regions are checked)
FailedEmissionBad(s) ==
    Tcl(<< [name |-> "conv_ctl", ip_type |-> "axi_clock_converter",
            config |-> ConvCtlConfig] >>)
FailedEmission(s)    == <<>>

\* add_sources(platform) called directly (lines 540-621)
AddSources ==
    /\ stage = "constructed"
    /\ fin # "phase1"
    /\ Len(emits) < MaxEmits
    /\ err' = RegionCheck(self)
    /\ IF RegionCheck(self) = ""
       THEN /\ pre_synthesis_commands' = pre_synthesis_commands \o IpTclOf(self)
            /\ emits' = Append(emits, EmitRecord("add_sources", IpTclOf(self)))
       ELSE /\ pre_synthesis_commands' =
                    pre_synthesis_commands \o FailedEmission(self)
            /\ UNCHANGED emits
    /\ UNCHANGED <<stage, args, self, specials, fin, repeated, n_updates>>
    /\ UNCHANGED <<reset_vars, bridge_vars>>

\* do_finalize (lines 625-632), in its two statements
\* (faulty variant: the instances are added before add_sources runs)
FinalizeOrderBad == <<"specials", "add_sources">>
FinalizeOrder    == <<"add_sources", "specials">>

FinalizeStatement(k, next) ==
    IF FinalizeOrder[k] = "add_sources"
    THEN /\ err' = RegionCheck(self)
         /\ IF RegionCheck(self) = ""
            THEN /\ pre_synthesis_commands' = pre_synthesis_commands \o IpTclOf(self)
                 /\ emits' = Append(emits, EmitRecord("do_finalize", IpTclOf(self)))
                 /\ fin' = next
            ELSE /\ fin' = "failed"
                 /\ pre_synthesis_commands' =
                         pre_synthesis_commands \o FailedEmission(self)
                 /\ UNCHANGED emits
         /\ UNCHANGED specials
    ELSE /\ specials' = specials \cup FinalInstances
         /\ fin' = next
         /\ err' = ""
         /\ UNCHANGED <<pre_synthesis_commands, emits>>

DoFinalizeBegin ==
    /\ stage = "constructed"
    /\ fin = "idle"
    /\ Len(emits) < MaxEmits
    /\ FinalizeStatement(1, "phase1")
    /\ UNCHANGED <<stage, args, self, repeated, n_updates>>
    /\ UNCHANGED <<reset_vars, bridge_vars>>

DoFinalizeEnd ==
    /\ stage = "constructed"
    /\ fin = "phase1"
    /\ FinalizeStatement(2, "done")
    /\ UNCHANGED <<stage, args, self, repeated, n_updates>>
    /\ UNCHANGED <<reset_vars, bridge_vars>>

Next ==
    \/ \E a \in CtorArgs : Construct(a)
    \/ \E ra \in RegionArgs : UpdateRegions(ra[1], ra[2])
    \/ AddSources
    \/ DoFinalizeBegin
    \/ DoFinalizeEnd

Spec == Init /\ [][Next]_vars

(***************************************************************************)
(* Clock/reset hardware described by __init__ (lines 62-112).              *)
(*                                                                         *)
(* add_resync(sig) returns a new signal that the hard core drives and      *)
(* makes sig the output of a MultiReg clocked by "sys": pcie_mmcm_lock is  *)
(* o_mmcm_lock after the resynchronizer's registers.  The reset of the     *)
(* "pcie" domain is an AsyncResetSynchronizer: two flip-flops clocked by   *)
(* the PCIe clock, data input 0, both preset asynchronously by the         *)
(* expression of line 80.                                                  *)
(***************************************************************************)
MULTIREG_STAGES == 2
ARS_STAGES      == 2

\* the "sys"-domain signals the MultiRegs drive
Resynced(sig)  == sync_regs[sig][MULTIREG_STAGES]
pcie_linkup    == Resynced("user_link_up")
pcie_mmcm_lock == Resynced("mmcm_lock")
ev_irq         == Resynced("interrupt_out")

\* ResetSignal("sys") | (~pcie_mmcm_lock) | (~vadj_pgood)
\* (faulty variant: the power-good term is missing)
AsyncResetBad == sys_rst \/ ~pcie_mmcm_lock
AsyncReset    == sys_rst \/ ~pcie_mmcm_lock \/ ~vadj_pgood

\* the three hazard conditions, as the reset contract names them
Hazard == sys_rst \/ ~pcie_mmcm_lock \/ ~vadj_pgood

Min(a, b) == IF a < b THEN a ELSE b

\* Asynchronous preset: whatever else a step does, both flip-flops read 1
\* while the preset input is high.  meta and rst are the values the step
\* would leave without the preset.
Preset(meta, rst) ==
    /\ rst_meta' = (AsyncReset' \/ meta)
    /\ pcie_rst' = (AsyncReset' \/ rst)

CountClean(n) == clean_edges' = IF Hazard' THEN 0 ELSE n

SetSysRst(b) ==
    /\ b # sys_rst
    /\ sys_rst' = b
    /\ UNCHANGED <<vadj_pgood, core_out, sync_regs, src_changed, stable_edges>>
    /\ Preset(rst_meta, pcie_rst)
    /\ CountClean(clean_edges)
    /\ UNCHANGED <<elab_vars, bridge_vars>>

SetPowerGood(b) ==
    /\ b # vadj_pgood
    /\ vadj_pgood' = b
    /\ UNCHANGED <<sys_rst, core_out, sync_regs, src_changed, stable_edges>>
    /\ Preset(rst_meta, pcie_rst)
    /\ CountClean(clean_edges)
    /\ UNCHANGED <<elab_vars, bridge_vars>>

\* the hard core raises or drops one of its status outputs
SetCoreOut(sig, b) ==
    /\ b # core_out[sig]
    /\ core_out' = [core_out EXCEPT ![sig] = b]
    /\ src_changed' = [src_changed EXCEPT ![sig] = TRUE]
    /\ stable_edges' = [stable_edges EXCEPT ![sig] = 0]
    /\ UNCHANGED <<sys_rst, vadj_pgood, sync_regs>>
    /\ Preset(rst_meta, pcie_rst)
    /\ CountClean(clean_edges)
    /\ UNCHANGED <<elab_vars, bridge_vars>>

\* MultiReg(_sig, sig, clk): the input is the new signal _sig that add_resync
\* returns to the hard core's output port, the output is sig (lines 527-529)
\* (faulty variant: the two signals are swapped, the chain reads its output)
ResyncInBad(sig) == sync_regs[sig][MULTIREG_STAGES]
ResyncIn(sig)    == core_out[sig]

\* what the first register of a MultiReg may capture: it samples a signal of
\* another clock domain, so when that signal changed since the previous edge
\* the register may hold the old or the new value
Samples(sig) ==
    IF src_changed[sig] THEN BOOLEAN ELSE {ResyncIn(sig)}

\* Rising edge of the "sys" clock: every MultiReg shifts.
SysClkEdge ==
    /\ \E sampled \in [ResyncSignals -> BOOLEAN] :
          /\ \A sig \in ResyncSignals : sampled[sig] \in Samples(sig)
          /\ sync_regs' = [sig \in ResyncSignals |->
                              <<sampled[sig], sync_regs[sig][1]>>]
    /\ src_changed' = [sig \in ResyncSignals |-> FALSE]
    /\ stable_edges' = [sig \in ResyncSignals |->
                            Min(stable_edges[sig] + 1, MaxStable)]
    /\ UNCHANGED <<sys_rst, vadj_pgood, core_out>>
    /\ Preset(rst_meta, pcie_rst)
    /\ CountClean(clean_edges)
    /\ UNCHANGED <<elab_vars, bridge_vars>>

\* Rising edge of the "pcie" clock: the reset synchronizer shifts a 0 in.
PcieClkEdge ==
    /\ UNCHANGED <<sys_rst, vadj_pgood, core_out, sync_regs, src_changed,
                   stable_edges>>
    /\ Preset(FALSE, rst_meta)
    /\ CountClean(Min(clean_edges + 1, MaxEdges))
    /\ UNCHANGED <<elab_vars, bridge_vars>>

\* the elaborated design the hardware belongs to
BuiltArgs == [DefaultArgs EXCEPT !.pcie_ecam = EcamLow, !.pcie_mmio = MmioLow]

InitReset ==
    /\ stage = "constructed"
    /\ args = BuiltArgs
    /\ self = NewObject(BuiltArgs)
    /\ specials = InitSpecials \cup FinalInstances
    /\ pre_synthesis_commands = Tcl(Configs(NewObject(BuiltArgs)))
    /\ fin = "done"
    /\ err = ""
    /\ emits = << [by       |-> "do_finalize",
                   ecam     |-> EcamLow,
                   mmio     |-> MmioLow,
                   repeated |-> FALSE,
                   updates  |-> 0,
                   at       |-> 0,
                   out      |-> Tcl(Configs(NewObject(BuiltArgs)))] >>
    /\ repeated = FALSE
    /\ n_updates = 0
    /\ sys_rst \in BOOLEAN
    /\ vadj_pgood \in BOOLEAN
    /\ core_out \in [ResyncSignals -> BOOLEAN]
    /\ sync_regs = [sig \in ResyncSignals |-> <<FALSE, FALSE>>]
    /\ src_changed = [sig \in ResyncSignals |-> FALSE]
    /\ rst_meta = TRUE
    /\ pcie_rst = TRUE
    /\ clean_edges = 0
    /\ stable_edges = [sig \in ResyncSignals |-> 0]
    /\ BridgeIdle

NextReset ==
    \/ \E b \in BOOLEAN : SetSysRst(b)
    \/ \E b \in BOOLEAN : SetPowerGood(b)
    \/ \E sig \in ResyncSignals, b \in BOOLEAN : SetCoreOut(sig, b)
    \/ SysClkEdge
    \/ PcieClkEdge

SpecReset == InitReset /\ [][NextReset]_vars

(***************************************************************************)
(* The AXI interfaces created by __init__ and the sides of the three       *)
(* clock converters they are wired to.                                     *)
(***************************************************************************)
\* AXILiteInterface / AXIInterface objects (lines 38-40 and 87-89); an
\* AXI-Lite interface has no identifier signals
Interfaces(a) ==
    [axi_ctl       |-> [data_width |-> 32, id_width |-> 0, clock_domain |-> a.cd],
     axi_mmio      |-> [data_width |-> a.data_width, id_width |-> a.id_width,
                        clock_domain |-> a.cd],
     axi_dma       |-> [data_width |-> a.data_width, id_width |-> a.id_width,
                        clock_domain |-> a.cd],
     axi_ctl_pcie  |-> [data_width |-> 32, id_width |-> 0,
                        clock_domain |-> "pcie_ctl"],
     axi_mmio_pcie |-> [data_width |-> OrDefault(a.pcie_data_width, a.data_width),
                        id_width |-> a.id_width, clock_domain |-> "pcie"],
     axi_dma_pcie  |-> [data_width |-> OrDefault(a.pcie_data_width, a.data_width),
                        id_width |-> 0, clock_domain |-> "pcie"]]

\* the interface on the s_axi and on the m_axi port group of each converter
\* (pcie_conv_ctl_params, pcie_conv_mmio_params, pcie_conv_dma_params)
BridgeSides ==
    [conv_ctl  |-> [s_axi |-> "axi_ctl", m_axi |-> "axi_ctl_pcie"],
     conv_mmio |-> [s_axi |-> "axi_mmio", m_axi |-> "axi_mmio_pcie"],
     conv_dma  |-> [s_axi |-> "axi_dma_pcie", m_axi |-> "axi_dma"]]

Bridges == DOMAIN BridgeSides

\* i_s_axi_aclk / i_m_axi_aclk: the clock domain of each port group
BridgeClocks ==
    [conv_ctl  |-> [s_axi |-> "sys", m_axi |-> "pcie_ctl"],
     conv_mmio |-> [s_axi |-> "sys", m_axi |-> "pcie"],
     conv_dma  |-> [s_axi |-> "pcie", m_axi |-> "sys"]]

\* i_s_axi_aresetn / i_m_axi_aresetn: the domain whose reset, negated,
\* drives each port group
BridgeResets ==
    [conv_ctl  |-> [s_axi |-> "sys", m_axi |-> "pcie"],
     conv_mmio |-> [s_axi |-> "sys", m_axi |-> "pcie"],
     conv_dma  |-> [s_axi |-> "pcie", m_axi |-> "sys"]]

\* i_axi_aresetn of the hard core (line 107)
HostReset == "pcie"

\* ResetSignal(cd): cd_pcie.rst is the reset synchronizer's output and
\* cd_pcie_ctl.rst is assigned ResetSignal("pcie") (line 81)
\* (faulty variant: the control domain keeps the system reset)
ResetSignalBad(cd) ==
    CASE cd = "sys"      -> sys_rst
      [] cd = "pcie"     -> pcie_rst
      [] cd = "pcie_ctl" -> sys_rst
ResetSignal(cd) ==
    CASE cd = "sys"      -> sys_rst
      [] cd = "pcie"     -> pcie_rst
      [] cd = "pcie_ctl" -> pcie_rst

\* an active-low reset input written ~ResetSignal(cd)
AresetN(cd) == ~ResetSignal(cd)

\* the hard core's port groups, the interface wired to each and the clock
\* output that times it (pcie_host_params, lines 108-109 and 116-224)
HostPorts ==
    [s_axi_ctl |-> [interface |-> "axi_ctl_pcie", clk |-> "pcie_ctl"],
     s_axi     |-> [interface |-> "axi_mmio_pcie", clk |-> "pcie"],
     m_axi     |-> [interface |-> "axi_dma_pcie", clk |-> "pcie"]]

\* One record per place where a signal produced in clock domain "from" is
\* consumed in clock domain "to": via names what stands between the two,
\* "wire" when nothing does.
Hop(sig, from, to, via) == [sig |-> sig, from |-> from, to |-> to, via |-> via]

\* add_resync(sig, clk): the hard core's output reaches sig through a
\* MultiReg clocked by clk (lines 526-529)
\* (faulty variant: the port drives the destination signal itself)
AddResyncBad(sig, clk) == Hop(sig, "pcie", clk, "wire")
AddResync(sig, clk)    == Hop(sig, "pcie", clk, "MultiReg")

\* every such place in the design that __init__ describes
Netlist(a) ==
         {AddResync(sig, "sys") : sig \in ResyncSignals}
    \cup {Hop(b, BridgeClocks[b].s_axi, BridgeClocks[b].m_axi,
               "axi_clock_converter") : b \in Bridges}
    \cup {Hop(BridgeSides[b][side],
               Interfaces(a)[BridgeSides[b][side]].clock_domain,
               BridgeClocks[b][side], "wire") :
              b \in Bridges, side \in {"s_axi", "m_axi"}}
    \cup {Hop(HostPorts[p].interface,
               Interfaces(a)[HostPorts[p].interface].clock_domain,
               HostPorts[p].clk, "wire") : p \in DOMAIN HostPorts}
    \cup {Hop(b \o "." \o side \o "_aresetn", BridgeResets[b][side],
               BridgeClocks[b][side], "wire") :
              b \in Bridges, side \in {"s_axi", "m_axi"}}
    \cup {Hop("host.axi_aresetn", HostReset, "pcie", "wire"),
          Hop("cd_pcie_ctl.rst", "pcie", "pcie_ctl", "wire"),
          Hop("ResetSignal(sys)", "sys", "pcie", "AsyncResetSynchronizer"),
          Hop("pcie_mmcm_lock", "sys", "pcie", "AsyncResetSynchronizer")}

Lines(out) == {out[k] : k \in DOMAIN out}

\* configs[name][key] of the dictionary built by add_sources
ConfigValue(s, name, key) ==
    LET c   == CHOOSE c \in Lines(Configs(s)) : c.name = name
        cfg == c.config
    IN  cfg[CHOOSE k \in DOMAIN cfg : cfg[k][1] = key][2]

(***************************************************************************)
(* One clock converter in operation.                                       *)
(*                                                                         *)
(* The converters are axi_clock_converter IP modules that the emitted Tcl  *)
(* creates; the source holds their port wiring and configuration only.     *)
(* What happens inside follows the bridge contract of the specification:   *)
(* one first-in-first-out buffer per channel, each crossing on its own.    *)
(* Requests (aw, w, ar) enter on the s_axi port group and leave on m_axi,  *)
(* responses (b, r) travel the other way.  Beats are numbered in the order *)
(* their source presents them; a response carries the number of the        *)
(* request it answers.                                                     *)
(***************************************************************************)
FifoDepth == 2      \* beats a channel's buffer holds
MaxReq    == 3      \* write requests (address and data beats) issued
MaxReads  == 2      \* read requests issued

\* how many beats the master presents on a request channel
Limit(ch) == IF ch = "ar" THEN MaxReads ELSE MaxReq

RequestChannels  == {"aw", "w", "ar"}
ResponseChannels == {"b", "r"}

InSide(pch)  == IF pch \in RequestChannels THEN "s_axi" ELSE "m_axi"
OutSide(pch) == IF pch \in RequestChannels THEN "m_axi" ELSE "s_axi"

\* the interface channel wired to channel pch of a port group:
\* i_s_axi_awvalid = axi.aw.valid, o_s_axi_awready = axi.aw.ready, ...
\* (faulty variant: on m_axi the b and r handshakes are crossed)
WiredBad(side, pch) ==
    IF side = "m_axi" /\ pch \in ResponseChannels
    THEN CHOOSE c \in ResponseChannels : c # pch
    ELSE pch
Wired(side, pch) == pch

\* every aresetn input of the converters is high
Running == \A b \in Bridges : \A side \in {"s_axi", "m_axi"} :
               AresetN(BridgeResets[b][side])

\* the buffer's discipline
Push(q, beat) == Append(q, beat)
\* (faulty variant: the newest beat leaves first)
TakeBad(q) == [beat |-> q[Len(q)], rest |-> SubSeq(q, 1, Len(q) - 1)]
Take(q)    == [beat |-> Head(q), rest |-> Tail(q)]

\* ready on a channel's input and valid on its output
BridgeReady(pch) == Len(fifo[pch]) < FifoDepth
BridgeValid(pch) == fifo[pch] # <<>>

\* the master on the s_axi side presents its next request and holds it
Issue(ch) ==
    /\ Running
    /\ src_valid[ch] = 0
    /\ Len(sent[ch]) < Limit(ch)
    /\ sent' = [sent EXCEPT ![ch] = Append(@, Len(@) + 1)]
    /\ src_valid' = [src_valid EXCEPT ![ch] = Len(sent[ch]) + 1]
    /\ UNCHANGED <<fifo, seen>>
    /\ UNCHANGED <<elab_vars, reset_vars>>

\* requests that have reached the slave on the m_axi side, in arrival
\* order: a write needs its address and its data
Arrived(ch) ==
    IF ch = "b"
    THEN SubSeq(seen["aw"], 1, Min(Len(seen["aw"]), Len(seen["w"])))
    ELSE seen["ar"]

\* the slave answers the oldest request it has not answered yet
Respond(ch) ==
    /\ Running
    /\ src_valid[ch] = 0
    /\ Len(sent[ch]) < Len(Arrived(ch))
    /\ sent' = [sent EXCEPT ![ch] = Append(@, Arrived(ch)[Len(@) + 1])]
    /\ src_valid' = [src_valid EXCEPT ![ch] = Arrived(ch)[Len(sent[ch]) + 1]]
    /\ UNCHANGED <<fifo, seen>>
    /\ UNCHANGED <<elab_vars, reset_vars>>

\* input handshake: valid and ready are both high at a clock edge
Accept(pch) ==
    LET ich == Wired(InSide(pch), pch)
    IN  /\ Running
        /\ src_valid[ich] # 0
        /\ BridgeReady(pch)
        /\ fifo' = [fifo EXCEPT ![pch] = Push(@, src_valid[ich])]
        /\ src_valid' = [src_valid EXCEPT ![ich] = 0]
        /\ UNCHANGED <<sent, seen>>
        /\ UNCHANGED <<elab_vars, reset_vars>>

\* output handshake: the receiver is ready while the bridge holds valid
Deliver(pch) ==
    LET och == Wired(OutSide(pch), pch)
    IN  /\ Running
        /\ BridgeValid(pch)
        /\ seen' = [seen EXCEPT ![och] = Append(@, Take(fifo[pch]).beat)]
        /\ fifo' = [fifo EXCEPT ![pch] = Take(@).rest]
        /\ UNCHANGED <<sent, src_valid>>
        /\ UNCHANGED <<elab_vars, reset_vars>>

\* the design out of reset, all status outputs high
InitBridge ==
    /\ stage = "constructed"
    /\ args = BuiltArgs
    /\ self = NewObject(BuiltArgs)
    /\ specials = InitSpecials \cup FinalInstances
    /\ pre_synthesis_commands = Tcl(Configs(NewObject(BuiltArgs)))
    /\ fin = "done"
    /\ err = ""
    /\ emits = << [by       |-> "do_finalize",
                   ecam     |-> EcamLow,
                   mmio     |-> MmioLow,
                   repeated |-> FALSE,
                   updates  |-> 0,
                   at       |-> 0,
                   out      |-> Tcl(Configs(NewObject(BuiltArgs)))] >>
    /\ repeated = FALSE
    /\ n_updates = 0
    /\ sys_rst = FALSE
    /\ vadj_pgood = TRUE
    /\ core_out = [sig \in ResyncSignals |-> TRUE]
    /\ sync_regs = [sig \in ResyncSignals |-> <<TRUE, TRUE>>]
    /\ src_changed = [sig \in ResyncSignals |-> FALSE]
    /\ rst_meta = FALSE
    /\ pcie_rst = FALSE
    /\ clean_edges = MaxEdges
    /\ stable_edges = [sig \in ResyncSignals |-> MaxStable]
    /\ BridgeIdle

NextBridge ==
    \/ \E ch \in RequestChannels : Issue(ch)
    \/ \E ch \in ResponseChannels : Respond(ch)
    \/ \E pch \in Channels : Accept(pch)
    \/ \E pch \in Channels : Deliver(pch)

SpecBridge == InitBridge /\ [][NextBridge]_vars

\* both clocks keep running and every receiver is ready again and again
SpecBridgeLive ==
    /\ SpecBridge
    /\ \A pch \in Channels : WF_vars(Accept(pch)) /\ WF_vars(Deliver(pch))

(***************************************************************************)
(* Properties.                                                             *)
(***************************************************************************)
\* the block of the platform's command list that emission i appended
Appended(i) ==
    SubSeq(pre_synthesis_commands, emits[i].at + 1, emits[i].at + Len(emits[i].out))

MissingRegionErrors == {"No ECAM region provided", "No MMIO region provided"}

\* C1 (as stated): add_sources succeeds only after update_regions has been
\* called; every successful emission follows at least one update_regions call.
C1_EmitsOnlyAfterUpdateRegions ==
    \A i \in DOMAIN emits : emits[i].updates > 0

\* C1 (amended): add_sources fails with a missing-region error exactly when
\* the stored ECAM or MMIO region (from the constructor or from the latest
\* update_regions call) is None, naming the first missing one and leaving
\* the command list alone; otherwise it succeeds and appends a non-empty
\* command sequence.
C1_MissingRegionFails ==
    /\ err = "No ECAM region provided" => self.pcie_ecam = None
    /\ err = "No MMIO region provided" =>
           (self.pcie_ecam # None /\ self.pcie_mmio = None)
    /\ (stage = "constructed" /\ err # "") => err \in MissingRegionErrors
    /\ \A i \in DOMAIN emits :
           /\ emits[i].ecam # None
           /\ emits[i].mmio # None
           /\ Len(emits[i].out) > 0
           /\ Appended(i) = emits[i].out

\* a first emission succeeded on constructor-supplied regions, and a later
\* call failed after update_regions dropped the MMIO region
C1_Witness ==
    /\ Len(emits) = 1
    /\ emits[1].updates = 0
    /\ n_updates = 1
    /\ err = "No MMIO region provided"

OtherArgsValidForLanes ==
    /\ args.data_width \in {64, 128}
    /\ (args.pcie_data_width = None \/ args.pcie_data_width \in {<<64>>, <<128>>})
    /\ args.refclk_freq \in {100000000, 125000000, 250000000}

\* C2: construction fails (assertion) for every lane count outside
\* {1, 2, 4, 8} and succeeds for every lane count in it when the other
\* parameters are valid.
C2_LaneCount ==
    stage # "none" =>
        /\ args.nlanes \notin {1, 2, 4, 8} =>
               (stage = "ctor_failed" /\ err = "AssertionError")
        /\ (args.nlanes \in {1, 2, 4, 8} /\ OtherArgsValidForLanes) =>
               (stage = "constructed" /\ self.nlanes = args.nlanes)

C2_Witness ==
    /\ stage = "ctor_failed"
    /\ args.nlanes = 3
    /\ OtherArgsValidForLanes

OtherArgsValidForWidths ==
    /\ args.nlanes \in {1, 2, 4, 8}
    /\ args.refclk_freq \in {100000000, 125000000, 250000000}

\* C3: construction fails for every data_width outside {64, 128} and for
\* every pcie_data_width outside {64, 128}, where an omitted pcie_data_width
\* takes the value of data_width; it succeeds when both are in the set and
\* the other parameters are valid.
C3_DataWidth ==
    stage # "none" =>
        LET dw  == args.data_width
            pdw == IF args.pcie_data_width = None THEN dw
                   ELSE args.pcie_data_width[1]
        IN  /\ dw \notin {64, 128} => stage = "ctor_failed"
            /\ pdw \notin {64, 128} => stage = "ctor_failed"
            /\ (dw \in {64, 128} /\ pdw \in {64, 128} /\ OtherArgsValidForWidths) =>
                   /\ stage = "constructed"
                   /\ self.data_width = dw
                   /\ self.pcie_data_width = pdw

\* the chip-facing width is valid and the hard-core width alone is rejected
C3_Witness ==
    /\ stage = "ctor_failed"
    /\ args.data_width = 128
    /\ args.pcie_data_width = <<256>>
    /\ OtherArgsValidForWidths

\* C4: construction fails for every reference-clock frequency other than
\* 100, 125 and 250 MHz.
C4_RefClk ==
    stage # "none" =>
        (args.refclk_freq \notin {100000000, 125000000, 250000000} =>
             (stage = "ctor_failed" /\ err = "AssertionError"))

C4_Witness ==
    /\ stage = "ctor_failed"
    /\ args.refclk_freq = 200000000
    /\ args.nlanes = 1
    /\ args.data_width = 64
    /\ args.pcie_data_width = None

\* C5: emission is deterministic and update_regions is idempotent: any two
\* emissions of the object made with the same stored regions produce the
\* same command sequence, whether or not update_regions was repeated with
\* the same regions in between, and that sequence is what the platform's
\* list receives.
C5_Deterministic ==
    \A i, j \in DOMAIN emits :
        (emits[i].ecam = emits[j].ecam /\ emits[i].mmio = emits[j].mmio) =>
            /\ emits[i].out = emits[j].out
            /\ Appended(i) = Appended(j)

\* update_regions(e, m); emit; update_regions(e, m); emit
C5_Witness ==
    /\ Len(emits) = 2
    /\ emits[1].updates = 1 /\ ~emits[1].repeated
    /\ emits[2].updates = 2 /\ emits[2].repeated
    /\ emits[1].ecam = emits[2].ecam
    /\ emits[1].mmio = emits[2].mmio

\* exactly four hexadecimal digits of n, 0 <= n < 2^16
Hex4(n) ==
    HexChar[((n \div 4096) % 16) + 1] \o HexChar[((n \div 256) % 16) + 1]
    \o HexChar[((n \div 16) % 16) + 1] \o HexChar[(n % 16) + 1]

\* the property line that carries an address as "0x" and eight digits
EightDigitLine(key, v) ==
    "CONFIG." \o key \o " {{0x" \o Hex4(v.hi) \o Hex4(v.lo) \o "}} \\"

EndOf(r) == BigDec(BigAdd(r.origin, r.size))

\* C6 (as stated): for both regions the emitted high address is
\* origin + size - 1 and the emitted base address is origin, each rendered
\* as 0x followed by exactly eight hexadecimal digits.
C6_EightDigitAddresses ==
    \A i \in DOMAIN emits :
        LET e == emits[i].ecam[1]
            m == emits[i].mmio[1]
        IN  /\ \A v \in {e.origin, EndOf(e), m.origin, EndOf(m)} :
                   v.hi \in 0..(Word - 1)
            /\ EightDigitLine("BASEADDR", e.origin) \in Lines(emits[i].out)
            /\ EightDigitLine("HIGHADDR", EndOf(e)) \in Lines(emits[i].out)
            /\ EightDigitLine("AXIBAR_0", m.origin) \in Lines(emits[i].out)
            /\ EightDigitLine("AXIBAR_HIGHADDR_0", EndOf(m)) \in Lines(emits[i].out)

LaneLine ==
    (1 :> "CONFIG.NO_OF_LANES {{X1}} \\") @@ (2 :> "CONFIG.NO_OF_LANES {{X2}} \\") @@
    (4 :> "CONFIG.NO_OF_LANES {{X4}} \\") @@ (8 :> "CONFIG.NO_OF_LANES {{X8}} \\")

RefClkLine ==
    (100000000 :> "CONFIG.REF_CLK_FREQ {{100_MHz}} \\") @@
    (125000000 :> "CONFIG.REF_CLK_FREQ {{125_MHz}} \\") @@
    (250000000 :> "CONFIG.REF_CLK_FREQ {{250_MHz}} \\")

LinkSpeedLine ==
    ("2.5_GT/s" :> "CONFIG.MAX_LINK_SPEED {{2.5_GT/s}} \\") @@
    ("5.0_GT/s" :> "CONFIG.MAX_LINK_SPEED {{5.0_GT/s}} \\")

\* lanes=4, data_width=64, ref_clk=100e6, max_link_speed="2.5_GT/s",
\* ECAM (0x0, 0x1000000), MMIO (0x40000000, 0x10000000)
C7_IsScenario(i) ==
    /\ self.nlanes = 4
    /\ self.data_width = 64
    /\ self.refclk_freq = 100000000
    /\ self.max_link_speed = "2.5_GT/s"
    /\ emits[i].ecam = <<[origin |-> [hi |-> 0, lo |-> 0],
                          size   |-> [hi |-> 256, lo |-> 0]]>>
    /\ emits[i].mmio = <<[origin |-> [hi |-> 16384, lo |-> 0],
                          size   |-> [hi |-> 4096, lo |-> 0]]>>

\* C7: the hard-core configuration renders the lane count as X<lanes>, the
\* reference clock as <MHz>_MHz and the link speed verbatim, and in the
\* end-to-end scenario it shows NO_OF_LANES=X4, REF_CLK_FREQ=100_MHz,
\* BASEADDR=0x00000000, HIGHADDR=0x00ffffff, AXIBAR_0=0x40000000 and
\* AXIBAR_HIGHADDR_0=0x4fffffff.
C7_Rendering ==
    \A i \in DOMAIN emits :
        /\ LaneLine[self.nlanes] \in Lines(emits[i].out)
        /\ RefClkLine[self.refclk_freq] \in Lines(emits[i].out)
        /\ LinkSpeedLine[self.max_link_speed] \in Lines(emits[i].out)
        /\ C7_IsScenario(i) =>
               {"CONFIG.NO_OF_LANES {{X4}} \\",
                "CONFIG.REF_CLK_FREQ {{100_MHz}} \\",
                "CONFIG.BASEADDR {{0x00000000}} \\",
                "CONFIG.HIGHADDR {{0x00ffffff}} \\",
                "CONFIG.AXIBAR_0 {{0x40000000}} \\",
                "CONFIG.AXIBAR_HIGHADDR_0 {{0x4fffffff}} \\"} \subseteq Lines(emits[i].out)

C7_Witness ==
    /\ Len(emits) >= 1
    /\ C7_IsScenario(1)

\* the create command of each IP instance, in the order the claim gives
C8_Create ==
    << "create_ip -vendor xilinx.com -name axi_clock_converter -module_name pcie_conv_ctl_s7",
       "create_ip -vendor xilinx.com -name axi_clock_converter -module_name pcie_conv_mmio_s7",
       "create_ip -vendor xilinx.com -name axi_clock_converter -module_name pcie_conv_dma_s7",
       "create_ip -vendor xilinx.com -name axi_pcie -module_name pcie_host_s7" >>

C8_GetIps ==
    << "set obj [get_ips pcie_conv_ctl_s7]",
       "set obj [get_ips pcie_conv_mmio_s7]",
       "set obj [get_ips pcie_conv_dma_s7]",
       "set obj [get_ips pcie_host_s7]" >>

C8_At(out, line) == {k \in DOMAIN out : out[k] = line}

C8_Commands ==
    {C8_Create[j] : j \in 1..4} \cup {C8_GetIps[j] : j \in 1..4}
    \cup {"set_property -dict [list \\", "] $obj", "generate_target all $obj",
          "synth_ip $obj"}

\* out[first..last] is the block of instance j: create, select, one property
\* list, generate, synthesize, in that order and nothing of another instance
C8_Block(out, j, first, last) ==
    /\ first + 6 <= last
    /\ out[first] = C8_Create[j]
    /\ out[first + 1] = C8_GetIps[j]
    /\ out[first + 2] = "set_property -dict [list \\"
    /\ \A k \in (first + 3)..(last - 4) : out[k] \notin C8_Commands
    /\ last - 4 >= first + 3
    /\ out[last - 3] = "] $obj"
    /\ out[last - 2] = "generate_target all $obj"
    /\ out[last - 1] = "synth_ip $obj"
    /\ out[last] = ""

\* C8: every emission holds, for each of the four IP instances exactly once
\* and in this order, create IP, set property list, generate target,
\* synthesize IP; the instances come in the order conv_ctl, conv_mmio,
\* conv_dma, host and their commands are not interleaved.
C8_CommandOrder ==
    \A i \in DOMAIN emits :
        LET out == emits[i].out
        IN  /\ \A j \in 1..4 : Cardinality(C8_At(out, C8_Create[j])) = 1
            /\ LET pos == [j \in 1..4 |-> CHOOSE k \in C8_At(out, C8_Create[j]) : TRUE]
                   lim == [j \in 1..4 |-> IF j = 4 THEN Len(out) ELSE pos[j + 1] - 1]
               IN  /\ pos[1] = 1
                   /\ pos[1] < pos[2] /\ pos[2] < pos[3] /\ pos[3] < pos[4]
                   /\ \A j \in 1..4 : C8_Block(out, j, pos[j], lim[j])

C8_Witness ==
    /\ Len(emits) = 2
    /\ emits[1].by = "do_finalize"
    /\ emits[2].by = "add_sources"
    /\ emits[2].mmio # emits[1].mmio

\* C9: finalization is two-phase: whenever any of the four instances has
\* been added, do_finalize has already resolved the configuration and its
\* commands are in the platform's pre-synthesis list; after the first
\* phase alone no instance exists yet.
C9_TwoPhase ==
    /\ (specials \cap FinalInstances # {}) =>
           /\ FinalInstances \subseteq specials
           /\ fin = "done"
           /\ \E i \in DOMAIN emits :
                  /\ emits[i].by = "do_finalize"
                  /\ Len(emits[i].out) > 0
                  /\ Appended(i) = emits[i].out
    /\ fin \in {"idle", "phase1", "failed"} => specials \cap FinalInstances = {}
    /\ fin = "phase1" => \E i \in DOMAIN emits : emits[i].by = "do_finalize"

C9_Witness ==
    /\ fin = "done"
    /\ FinalInstances \subseteq specials
    /\ \E i \in DOMAIN emits : emits[i].by = "do_finalize"

\* C10: the PCIe-domain reset is asserted in every state where system reset,
\* PLL not locked or power not good holds (so it asserts with the hazard, not
\* with a clock edge), and it is deasserted only when at least two PCIe clock
\* edges have passed with none of the three conditions true since.
C10_ResetWhileHazard ==
    /\ (sys_rst \/ ~pcie_mmcm_lock \/ ~vadj_pgood) => pcie_rst
    /\ ~pcie_rst => clean_edges >= 2

\* the reset has been released, then a hazard returned and re-asserted it
\* with no PCIe clock edge in between
C10_Witness ==
    /\ ~vadj_pgood
    /\ ~sys_rst
    /\ pcie_mmcm_lock
    /\ pcie_rst
    /\ clean_edges = 0
    /\ core_out["mmcm_lock"]

(***************************************************************************)
(* Base-address window, region bounds and bridge widths.                   *)
(***************************************************************************)
BigLeq(a, b) == a.hi < b.hi \/ (a.hi = b.hi /\ a.lo <= b.lo)

\* n times b, for a small n
BigTimes(n, b) ==
    [hi |-> n * b.hi + ((n * b.lo) \div Word), lo |-> (n * b.lo) % Word]

BarSizeLine(n) == "CONFIG.BAR0_SIZE {{" \o HexChar[n + 1] \o "}} \\"
BarScaleBytes ==
    [Kilobytes |-> Big(0, 1024), Megabytes |-> Big(16, 0), Gigabytes |-> Big(16384, 0)]
BarScaleLine(sc) == "CONFIG.BAR0_SCALE {{" \o sc \o "}} \\"

\* C15 (as stated): for every MMIO region accepted by emission, AXIBAR_NUM is
\* 1, BAR_64BIT is true and the window BAR0_SIZE x BAR0_SCALE covers the MMIO
\* region's size.
C15_BarCoversMmio ==
    \A i \in DOMAIN emits :
        LET out == Lines(emits[i].out)
            m   == emits[i].mmio[1]
        IN  /\ "CONFIG.AXIBAR_NUM {{1}} \\" \in out
            /\ "CONFIG.BAR_64BIT {{true}} \\" \in out
            /\ \E n \in 1..8, sc \in DOMAIN BarScaleBytes :
                   /\ BarSizeLine(n) \in out
                   /\ BarScaleLine(sc) \in out
                   /\ BigLeq(m.size, BigTimes(n, BarScaleBytes[sc]))

\* C16 (as stated): every region used by an emission has size > 0 and an end
\* origin + size - 1 that fits 32 bits; the emitted high address is not below
\* the base and is rendered with eight hexadecimal digits.
C16_RegionsInRange ==
    \A i \in DOMAIN emits :
        LET e == emits[i].ecam[1]
            m == emits[i].mmio[1]
        IN  /\ \A r \in {e, m} :
                   /\ ~BigLeq(r.size, Big(0, 0))
                   /\ BigLeq(EndOf(r), Big(Word - 1, Word - 1))
                   /\ BigLeq(r.origin, EndOf(r))
            /\ EightDigitLine("HIGHADDR", EndOf(e)) \in Lines(emits[i].out)
            /\ EightDigitLine("AXIBAR_HIGHADDR_0", EndOf(m)) \in Lines(emits[i].out)

\* C18 (as stated): for each of the three bridges the emitted ID_WIDTH and
\* DATA_WIDTH equal the identifier width and data width of the interfaces
\* wired to both of its sides; the DMA bridge's ID_WIDTH is the zero width
\* of the PCIe-side DMA interface.
C18_BridgeWidths ==
    emits # <<>> =>
        \A b \in Bridges : \A side \in DOMAIN BridgeSides[b] :
            LET ifc == Interfaces(args)[BridgeSides[b][side]]
            IN  /\ ConfigValue(self, b, "ID_WIDTH") = DecStr(ifc.id_width)
                /\ ConfigValue(self, b, "DATA_WIDTH") = DecStr(ifc.data_width)

\* C19: when finalization fails because the ECAM or MMIO region is missing,
\* the failing step leaves the platform's pre-synthesis command list
\* unchanged and adds none of the four instances, and none is present in
\* the failed state.
C19_NoPartialOutput ==
    /\ [](fin = "failed" => specials \cap FinalInstances = {})
    /\ [][(fin # "failed" /\ fin' = "failed") =>
             /\ err' \in MissingRegionErrors
             /\ pre_synthesis_commands' = pre_synthesis_commands
             /\ specials' = specials
             /\ emits' = emits]_vars

\* finalization has failed on a region that an update_regions call removed
C19_Witness ==
    /\ fin = "failed"
    /\ n_updates > 0
    /\ self.pcie_ecam = None \/ self.pcie_mmio = None
    /\ specials = InitSpecials

\* C17: the pcie_ctl domain's reset equals the PCIe-domain reset in every
\* state, and the hard core and the PCIe side of every bridge see an
\* active-low reset that is the negation of that same reset.
C17_SharedReset ==
    /\ ResetSignal("pcie_ctl") = pcie_rst
    /\ ResetSignal("pcie") = pcie_rst
    /\ AresetN(HostReset) = ~pcie_rst
    /\ \A b \in Bridges : \A side \in DOMAIN BridgeClocks[b] :
           BridgeClocks[b][side] \in {"pcie", "pcie_ctl"} =>
               AresetN(BridgeResets[b][side]) = ~pcie_rst

\* the three hazard conditions are gone and the synchronizer is one PCIe
\* clock edge into the release: the PCIe-domain reset is still asserted
\* while the system reset is not, with all four instances in the design
C17_Witness ==
    /\ FinalInstances \subseteq specials
    /\ ~sys_rst
    /\ vadj_pgood
    /\ pcie_mmcm_lock
    /\ clean_edges = 1
    /\ pcie_rst

\* C12: a level held stable on the source (PCIe) side for at least
\* N = stages + 1 destination clock edges, with at least two stages, is
\* the value observed on the destination (system) side.
C12_StableLevelObserved ==
    /\ MULTIREG_STAGES >= 2
    /\ \A sig \in ResyncSignals :
           stable_edges[sig] >= MULTIREG_STAGES + 1 =>
               Resynced(sig) = core_out[sig]

\* link-up has been high for three system clock edges and is seen high,
\* while the interrupt output changed a moment ago and is not yet seen
C12_Witness ==
    /\ stable_edges["user_link_up"] >= MULTIREG_STAGES + 1
    /\ core_out["user_link_up"]
    /\ pcie_linkup
    /\ stable_edges["interrupt_out"] = MULTIREG_STAGES
    /\ ev_irq # core_out["interrupt_out"]

\* C14 (as stated): every signal or channel that crosses between the system,
\* PCIe and PCIe-control clock domains passes through an explicit crossing
\* primitive; no signal owned by one domain is consumed directly in another.
C14_NoDirectCrossing ==
    stage = "constructed" =>
        \A w \in Netlist(args) : w.from # w.to => w.via # "wire"

\* C14 (amended): link-up, PLL-lock and the interrupt request each reach the
\* system domain through a resynchronizer, each bridge stands between the
\* system clock and a PCIe clock, and the only signals consumed directly in
\* another domain are the PCIe-domain reset, used as the reset of the
\* PCIe-control domain and of the control bridge's PCIe-control side, and
\* the chip-facing interfaces of a design built with a clock-domain name
\* other than "sys", which sit on the system-clocked side of their bridges.
C14_CrossingsButSharedReset ==
    stage = "constructed" =>
        /\ \A sig \in ResyncSignals :
               \A w \in Netlist(args) :
                   w.sig = sig => w.via = "MultiReg" /\ w.to = "sys"
        /\ \A w \in Netlist(args) :
               w.via = "axi_clock_converter" =>
                   {w.from, w.to} \in {{"sys", "pcie"}, {"sys", "pcie_ctl"}}
        /\ \A w \in Netlist(args) :
               (w.from # w.to /\ w.via = "wire") =>
                   \/ /\ w.sig \in {"cd_pcie_ctl.rst", "conv_ctl.m_axi_aresetn"}
                      /\ w.from = "pcie"
                      /\ w.to = "pcie_ctl"
                   \/ /\ w.sig \in {"axi_ctl", "axi_mmio", "axi_dma"}
                      /\ args.cd # "sys"
                      /\ w.from = args.cd
                      /\ w.to = "sys"

\* a finalized design whose chip-facing interfaces were given another
\* clock-domain name
C14_Witness ==
    /\ stage = "constructed"
    /\ fin = "done"
    /\ FinalInstances \subseteq specials
    /\ args.cd # "sys"
    /\ Hop("cd_pcie_ctl.rst", "pcie", "pcie_ctl", "wire") \in Netlist(args)
    /\ Hop("axi_dma", args.cd, "sys", "wire") \in Netlist(args)

\* C11: write requests issued in the order A, B, C on one side of a bridge
\* have their write responses observed on that side in the same order;
\* every channel hands its beats over in the order they were presented.
C11_ResponsesInIssueOrder ==
    /\ seen["b"] = SubSeq(sent["aw"], 1, Len(seen["b"]))
    /\ \A ch \in Channels : seen[ch] = SubSeq(sent[ch], 1, Len(seen[ch]))

\* three writes were outstanding together and all three were answered
C11_Witness ==
    /\ sent["aw"] = <<1, 2, 3>>
    /\ seen["b"] = <<1, 2, 3>>

\* the beat a channel's source holds valid, as a sequence
Pending(ch) == IF src_valid[ch] = 0 THEN <<>> ELSE <<src_valid[ch]>>

====
